---- MODULE Spec2Model ----
(***************************************************************************)
(* Page scripts of the local search engine front end:                      *)
(*   - results page   (src/unnamed/part_000): POST /results on             *)
(*     DOMContentLoaded, renderResults with per-item error detection;      *)
(*   - documents page (templates/documents/script.js): POST /documents on  *)
(*     every submit event, plain renderResults;                            *)
(*   - index page     (src/unnamed/part_001): submit-on-Enter.             *)
(* Each script runs as a classic (sloppy-mode) script in its own page, so  *)
(* `this` inside a plain function call is the window object.  A callback   *)
(* of the promise chain runs to completion; a rejection is delivered to    *)
(* the trailing .catch in the same microtask checkpoint, so one action     *)
(* covers a callback together with the catch it may trigger.               *)
(***************************************************************************)
EXTENDS Integers, Sequences, FiniteSets, TLC

VARIABLES
    page,            \* which template's script is running
    query,           \* value of the #query field
    algorithm,       \* value of the #algorithm field
    container,       \* children of the #results element (resultsElement)
    alerts,          \* texts shown by alert(), in order
    console,         \* texts written by console.error, in order
    error_message,   \* results page: global `let error_message`
    results,         \* results page: global `let results`
    this_error,      \* results page: window.error_message (this.error_message)
    renderCalls,     \* number of invocations of renderResults
    renderReturns,   \* number of normal returns of renderResults
    uncaught,        \* number of rejections no handler caught
    sent,            \* number of calls of fetch()
    chains,          \* per fetch() call: stage of its promise chain, request in flight
    events,          \* number of DOMContentLoaded / submit events dispatched
    submitCalls,     \* number of calls of form.submit() (index page)
    preventDefaults, \* number of calls of event.preventDefault()
    keys,            \* keyup events dispatched on the query input (index page)
    shown,           \* the HTTP-OK, error-free envelope processed last
    last             \* the step taken last, with the state it started from

vars == <<page, query, algorithm, container, alerts, console, error_message,
          results, this_error, renderCalls, renderReturns, uncaught, sent,
          chains, events, submitCalls, preventDefaults, keys, shown, last>>

(***************************************************************************)
(* Bounds of the model.                                                    *)
(***************************************************************************)
MaxSubmits == 2      \* submit events on the documents page
MaxResults == 2      \* length of a results array
MaxCalls == 2        \* direct calls of renderResults (SpecRender)
MaxKeys == 3         \* keyup events on the index page

Queries == {"cat", "dog"}
Algorithms == {"bm25", "tfidf"}
Docs == {"d1", "d2"}
Messages == {"e1", "e2"}
KeyNames == {"Enter", "a", "Escape"}

(***************************************************************************)
(* JavaScript values.  A property is either undefined or holds a value;    *)
(* `if (x)` on a string is true exactly for a defined, non-empty string.   *)
(***************************************************************************)
Undefined == [def |-> FALSE, val |-> ""]
Str(s) == [def |-> TRUE, val |-> s]
UndefinedArr == [def |-> FALSE, val |-> <<>>]
Arr(s) == [def |-> TRUE, val |-> s]
Truthy(v) == v.def /\ v.val # ""

SeqsUpTo(S, n) == UNION {[1..k -> S] : k \in 0..n}

SearchResult(d, e) ==
    [url |-> "/doc/" \o d, title |-> d, snippet |-> "about " \o d, error_message |-> e]

\* results the server puts in an envelope
ServerItems == {SearchResult(d, Undefined) : d \in Docs}
\* result objects handed to renderResults directly
RenderItems ==
    {SearchResult("d1", e) : e \in {Undefined, Str("")} \cup {Str(m) : m \in Messages}}

\* a ranked list names a document at most once
Rankings(S, n) == {s \in SeqsUpTo(S, n) : \A i, j \in 1..Len(s) : s[i] = s[j] => i = j}

Envelopes ==
    [error_message : {Undefined, Str(""), Str("e1")},
     results : {UndefinedArr} \cup {Arr(s) : s \in Rankings(ServerItems, MaxResults)}]

NoData == [error_message |-> Undefined, results |-> UndefinedArr]

(***************************************************************************)
(* The part of the page a callback reads and writes, as one record; a      *)
(* callback is an operator from this record to this record.  `thrown` is   *)
(* the exception propagating out of the callback ("" when none).           *)
(***************************************************************************)
World ==
    [container |-> container, alerts |-> alerts, console |-> console,
     error_message |-> error_message, results |-> results, this_error |-> this_error,
     renderCalls |-> renderCalls, renderReturns |-> renderReturns,
     fetched |-> <<>>, thrown |-> ""]

Snapshot ==
    [container |-> container, nAlerts |-> Len(alerts), nConsole |-> Len(console),
     renderCalls |-> renderCalls, renderReturns |-> renderReturns,
     uncaught |-> uncaught, sent |-> sent,
     query |-> query, algorithm |-> algorithm,
     submitCalls |-> submitCalls, preventDefaults |-> preventDefaults]

NotIterable == "TypeError: searchResults is not iterable"
NotOk == "Error: Network response was not ok"
FailedToFetch == "TypeError: Failed to fetch"
BadJson == "SyntaxError: Unexpected token in JSON"

\* JSON.stringify({query, algorithm})
JSONStringify(q, a) == "{\"query\":\"" \o q \o "\",\"algorithm\":\"" \o a \o "\"}"

NoRequest == [url |-> "", method |-> "", contentType |-> "", body |-> ""]

Request(url, q, a) ==
    [url |-> url, method |-> "POST", contentType |-> "application/json",
     body |-> JSONStringify(q, a)]

(***************************************************************************)
(* Results page, src/unnamed/part_000.                                     *)
(***************************************************************************)
\* index of the first result whose error_message is truthy, 0 when none
RECURSIVE FirstErrorFrom(_, _)
FirstErrorFrom(s, i) ==
    IF i > Len(s) THEN 0
    ELSE IF Truthy(s[i].error_message) THEN i
    ELSE FirstErrorFrom(s, i + 1)

\* the <li class="result"> the results page builds: no child is added to it
Results_resultItem(result) ==
    [tag |-> "li", class |-> "result", href |-> "", text |-> "", snippet |-> ""]

\* variant: the loop records the error but goes on (`continue` for `break`)
Results_renderResults_noBreak(w, searchResults) ==
    LET cleared == [w EXCEPT !.container = <<>>, !.renderCalls = @ + 1]
    IN  IF ~searchResults.def
        THEN [cleared EXCEPT !.thrown = NotIterable]
        ELSE
          LET s == searchResults.val
              good == SelectSeq(s, LAMBDA r : ~Truthy(r.error_message))
              bad == SelectSeq(s, LAMBDA r : Truthy(r.error_message))
              err == IF Len(bad) = 0 THEN w.this_error ELSE bad[Len(bad)].error_message
              shownAlert ==
                  IF Truthy(err)
                  THEN <<"Error retrieving search results: " \o err.val>>
                  ELSE IF Len(s) = 0
                  THEN <<"No results found for your query.">>
                  ELSE <<>>
          IN  [cleared EXCEPT !.container = [i \in 1..Len(good) |->
                                                [tag |-> "li", class |-> "result",
                                                 href |-> "", text |-> "", snippet |-> ""]],
                              !.this_error = err,
                              !.alerts = @ \o shownAlert,
                              !.renderReturns = @ + 1]

Results_renderResults(w, searchResults) ==
    LET cleared == [w EXCEPT !.container = <<>>, !.renderCalls = @ + 1]
    IN  IF ~searchResults.def
        THEN [cleared EXCEPT !.thrown = NotIterable]
        ELSE
          LET s == searchResults.val
              k == FirstErrorFrom(s, 1)
              n == IF k = 0 THEN Len(s) ELSE k - 1
              err == IF k = 0 THEN w.this_error ELSE s[k].error_message
              shownAlert ==
                  IF Truthy(err)
                  THEN <<"Error retrieving search results: " \o err.val>>
                  ELSE IF Len(s) = 0
                  THEN <<"No results found for your query.">>
                  ELSE <<>>
          IN  [cleared EXCEPT !.container = [i \in 1..n |-> Results_resultItem(s[i])],
                              !.this_error = err,
                              !.alerts = @ \o shownAlert,
                              !.renderReturns = @ + 1]

Results_fetch(w, q, a) ==
    [w EXCEPT !.fetched = Append(@, Request("/results", q, a))]

Results_thenResponse(w, ok) ==
    IF ~ok THEN [w EXCEPT !.thrown = NotOk] ELSE w

Results_thenData(w, data) ==
    LET d == [data EXCEPT !.results = UndefinedArr]
    IN  IF Truthy(d.error_message)
        THEN [w EXCEPT !.error_message = d.error_message.val,
                       !.alerts = Append(@, "Error from server: " \o d.error_message.val)]
        ELSE Results_renderResults([w EXCEPT !.results = d.results], d.results)

Results_catch(w) ==
    IF w.thrown = "" THEN w
    ELSE [w EXCEPT !.console = Append(@, "Error fetching search results: " \o w.thrown),
                   !.thrown = ""]

(***************************************************************************)
(* Documents page, src/local_search_engine/templates/documents/script.js.  *)
(***************************************************************************)
Documents_resultItem(result) ==
    [tag |-> "li", class |-> "result", href |-> result.url, text |-> result.title,
     snippet |-> result.snippet]

\* variant: the previous items are not cleared
Documents_renderResults_noClear(w, searchResults) ==
    LET called == [w EXCEPT !.renderCalls = @ + 1]
    IN  IF ~searchResults.def
        THEN [called EXCEPT !.thrown = NotIterable]
        ELSE [called EXCEPT
                !.container = @ \o [i \in 1..Len(searchResults.val) |->
                                       Documents_resultItem(searchResults.val[i])],
                !.renderReturns = @ + 1]

Documents_renderResults(w, searchResults) ==
    LET cleared == [w EXCEPT !.container = <<>>, !.renderCalls = @ + 1]
    IN  IF ~searchResults.def
        THEN [cleared EXCEPT !.thrown = NotIterable]
        ELSE [cleared EXCEPT
                !.container = [i \in 1..Len(searchResults.val) |->
                                  Documents_resultItem(searchResults.val[i])],
                !.renderReturns = @ + 1]

\* variant: the request is issued twice
Documents_fetch_twice(w, q, a) ==
    [w EXCEPT !.fetched = @ \o <<Request("/documents", q, a), Request("/documents", q, a)>>]

Documents_fetch(w, q, a) ==
    [w EXCEPT !.fetched = Append(@, Request("/documents", q, a))]

Documents_thenResponse(w, ok) ==
    IF ~ok THEN [w EXCEPT !.thrown = NotOk] ELSE w

\* variant: no `return` after the alert
Documents_thenData_noReturn(w, data) ==
    IF Truthy(data.error_message)
    THEN Documents_renderResults(
             [w EXCEPT !.alerts = Append(@, "Error from server: " \o data.error_message.val)],
             data.results)
    ELSE Documents_renderResults(w, data.results)

\* variant: the list is emptied before the error is shown
Documents_thenData_clearOnError(w, data) ==
    IF Truthy(data.error_message)
    THEN [w EXCEPT !.container = <<>>,
                   !.alerts = Append(@, "Error from server: " \o data.error_message.val)]
    ELSE Documents_renderResults(w, data.results)

Documents_thenData(w, data) ==
    IF Truthy(data.error_message)
    THEN [w EXCEPT !.alerts = Append(@, "Error from server: " \o data.error_message.val)]
    ELSE Documents_renderResults(w, data.results)

\* variant: the failure is shown to the user as well
Documents_catch_alert(w) ==
    IF w.thrown = "" THEN w
    ELSE [w EXCEPT !.console = Append(@, "Error fetching search results: " \o w.thrown),
                   !.alerts = Append(@, "Error fetching search results: " \o w.thrown),
                   !.thrown = ""]

\* variant: the failure is swallowed without a log entry
Documents_catch_silent(w) ==
    IF w.thrown = "" THEN w ELSE [w EXCEPT !.thrown = ""]

Documents_catch(w) ==
    IF w.thrown = "" THEN w
    ELSE [w EXCEPT !.console = Append(@, "Error fetching search results: " \o w.thrown),
                   !.thrown = ""]

(***************************************************************************)
(* Index page, src/unnamed/part_001.                                       *)
(***************************************************************************)
\* variant: the key is not tested
Index_keyup_anyKey(c, key) ==
    [c EXCEPT !.preventDefaults = @ + 1, !.submitCalls = @ + 1]

Index_keyup(c, key) ==
    IF key = "Enter"
    THEN [c EXCEPT !.preventDefaults = @ + 1, !.submitCalls = @ + 1]
    ELSE c

(***************************************************************************)
(* State after the scripts have been evaluated.                            *)
(***************************************************************************)
InitPage(p) ==
    /\ page = p
    /\ query \in Queries
    /\ algorithm \in Algorithms
    /\ container = <<>>
    /\ alerts = <<>>
    /\ console = <<>>
    /\ error_message = ""
    /\ results = Arr(<<>>)
    /\ this_error = Undefined
    /\ renderCalls = 0
    /\ renderReturns = 0
    /\ uncaught = 0
    /\ sent = 0
    /\ chains = <<>>
    /\ events = 0
    /\ submitCalls = 0
    /\ preventDefaults = 0
    /\ keys = <<>>
    /\ shown = [id |-> 0, data |-> NoData]
    /\ last = [op |-> "init", id |-> 0, data |-> NoData, pre |-> Snapshot]

Init == \E p \in {"results", "documents", "index"} : InitPage(p)

Pending(request) == [stage |-> "pending", request |-> request]
Parsing == [stage |-> "parsing", request |-> NoRequest]
Settled == [stage |-> "settled", request |-> NoRequest]

\* the state a callback leaves behind: every request it handed to fetch() is in
\* flight with a pending chain; a rejection nothing caught is counted
Commit(w, ch) ==
    /\ chains' = ch \o [i \in 1..Len(w.fetched) |-> Pending(w.fetched[i])]
    /\ sent' = sent + Len(w.fetched)
    /\ container' = w.container
    /\ alerts' = w.alerts
    /\ console' = w.console
    /\ error_message' = w.error_message
    /\ results' = w.results
    /\ this_error' = w.this_error
    /\ renderCalls' = w.renderCalls
    /\ renderReturns' = w.renderReturns
    /\ uncaught' = IF w.thrown = "" THEN uncaught ELSE uncaught + 1

Step(op, id, data) == last' = [op |-> op, id |-> id, data |-> data, pre |-> Snapshot]

Outstanding == {i \in 1..Len(chains) : chains[i].stage # "settled"}

(***************************************************************************)
(* The user edits the form fields of the results or the documents page.    *)
(***************************************************************************)
EditQuery(q) ==
    /\ page \in {"results", "documents"}
    /\ q # query
    /\ query' = q
    /\ Step("edit", 0, NoData)
    /\ UNCHANGED <<page, algorithm, container, alerts, console, error_message, results,
                   this_error, renderCalls, renderReturns, uncaught, sent, chains,
                   events, submitCalls, preventDefaults, keys, shown>>

SelectAlgorithm(a) ==
    /\ page \in {"results", "documents"}
    /\ a # algorithm
    /\ algorithm' = a
    /\ Step("select", 0, NoData)
    /\ UNCHANGED <<page, query, container, alerts, console, error_message, results,
                   this_error, renderCalls, renderReturns, uncaught, sent, chains,
                   events, submitCalls, preventDefaults, keys, shown>>

(***************************************************************************)
(* Results page: the DOMContentLoaded listener and its promise chain.      *)
(***************************************************************************)
Results_DOMContentLoaded ==
    /\ page = "results"
    /\ events = 0
    /\ events' = events + 1
    /\ Commit(Results_fetch(World, query, algorithm), chains)
    /\ Step("load", Len(chains) + 1, NoData)
    /\ UNCHANGED <<page, query, algorithm, submitCalls, preventDefaults, keys, shown>>

Results_FetchReject(id) ==
    /\ page = "results"
    /\ id \in 1..Len(chains)
    /\ chains[id].stage = "pending"
    /\ Commit(Results_catch([World EXCEPT !.thrown = FailedToFetch]),
              [chains EXCEPT ![id] = Settled])
    /\ Step("fetchReject", id, NoData)
    /\ UNCHANGED <<page, query, algorithm, events, submitCalls, preventDefaults, keys, shown>>

Results_FetchResolve(id, ok) ==
    /\ page = "results"
    /\ id \in 1..Len(chains)
    /\ chains[id].stage = "pending"
    /\ Commit(Results_catch(Results_thenResponse(World, ok)),
              [chains EXCEPT ![id] = IF ok THEN Parsing ELSE Settled])
    /\ Step(IF ok THEN "responseOk" ELSE "responseNotOk", id, NoData)
    /\ UNCHANGED <<page, query, algorithm, events, submitCalls, preventDefaults, keys, shown>>

Results_JsonReject(id) ==
    /\ page = "results"
    /\ id \in 1..Len(chains)
    /\ chains[id].stage = "parsing"
    /\ Commit(Results_catch([World EXCEPT !.thrown = BadJson]),
              [chains EXCEPT ![id] = Settled])
    /\ Step("jsonReject", id, NoData)
    /\ UNCHANGED <<page, query, algorithm, events, submitCalls, preventDefaults, keys, shown>>

Results_JsonResolve(id, data) ==
    /\ page = "results"
    /\ id \in 1..Len(chains)
    /\ chains[id].stage = "parsing"
    /\ Commit(Results_catch(Results_thenData(World, data)),
              [chains EXCEPT ![id] = Settled])
    /\ shown' = IF Truthy(data.error_message) THEN shown ELSE [id |-> id, data |-> data]
    /\ Step("data", id, data)
    /\ UNCHANGED <<page, query, algorithm, events, submitCalls, preventDefaults, keys>>

(***************************************************************************)
(* Documents page: the submit listener and its promise chains.             *)
(***************************************************************************)
Documents_submit ==
    /\ page = "documents"
    /\ events < MaxSubmits
    /\ events' = events + 1
    /\ preventDefaults' = preventDefaults + 1
    /\ Commit(Documents_fetch(World, query, algorithm), chains)
    /\ Step("submit", Len(chains) + 1, NoData)
    /\ UNCHANGED <<page, query, algorithm, submitCalls, keys, shown>>

Documents_FetchReject(id) ==
    /\ page = "documents"
    /\ id \in 1..Len(chains)
    /\ chains[id].stage = "pending"
    /\ Commit(Documents_catch([World EXCEPT !.thrown = FailedToFetch]),
              [chains EXCEPT ![id] = Settled])
    /\ Step("fetchReject", id, NoData)
    /\ UNCHANGED <<page, query, algorithm, events, submitCalls, preventDefaults, keys, shown>>

Documents_FetchResolve(id, ok) ==
    /\ page = "documents"
    /\ id \in 1..Len(chains)
    /\ chains[id].stage = "pending"
    /\ Commit(Documents_catch(Documents_thenResponse(World, ok)),
              [chains EXCEPT ![id] = IF ok THEN Parsing ELSE Settled])
    /\ Step(IF ok THEN "responseOk" ELSE "responseNotOk", id, NoData)
    /\ UNCHANGED <<page, query, algorithm, events, submitCalls, preventDefaults, keys, shown>>

Documents_JsonReject(id) ==
    /\ page = "documents"
    /\ id \in 1..Len(chains)
    /\ chains[id].stage = "parsing"
    /\ Commit(Documents_catch([World EXCEPT !.thrown = BadJson]),
              [chains EXCEPT ![id] = Settled])
    /\ Step("jsonReject", id, NoData)
    /\ UNCHANGED <<page, query, algorithm, events, submitCalls, preventDefaults, keys, shown>>

Documents_JsonResolve(id, data) ==
    /\ page = "documents"
    /\ id \in 1..Len(chains)
    /\ chains[id].stage = "parsing"
    /\ Commit(Documents_catch(Documents_thenData(World, data)),
              [chains EXCEPT ![id] = Settled])
    /\ shown' = IF Truthy(data.error_message) THEN shown ELSE [id |-> id, data |-> data]
    /\ Step("data", id, data)
    /\ UNCHANGED <<page, query, algorithm, events, submitCalls, preventDefaults, keys>>

(***************************************************************************)
(* Index page: a keyup event on the query input.                           *)
(***************************************************************************)
Index_Keyup(key) ==
    /\ page = "index"
    /\ Len(keys) < MaxKeys
    /\ keys' = Append(keys, key)
    /\ LET c == Index_keyup([submitCalls |-> submitCalls,
                             preventDefaults |-> preventDefaults], key)
       IN  /\ submitCalls' = c.submitCalls
           /\ preventDefaults' = c.preventDefaults
    /\ Step("keyup", Len(keys) + 1, NoData)
    /\ UNCHANGED <<page, query, algorithm, container, alerts, console, error_message,
                   results, this_error, renderCalls, renderReturns, uncaught, sent,
                   chains, events, shown>>

Next ==
    \/ \E q \in Queries : EditQuery(q)
    \/ \E a \in Algorithms : SelectAlgorithm(a)
    \/ Results_DOMContentLoaded
    \/ \E id \in 1..1 : Results_FetchReject(id)
    \/ \E id \in 1..1, ok \in BOOLEAN : Results_FetchResolve(id, ok)
    \/ \E id \in 1..1 : Results_JsonReject(id)
    \/ \E id \in 1..1, data \in Envelopes : Results_JsonResolve(id, data)
    \/ Documents_submit
    \/ \E id \in 1..MaxSubmits : Documents_FetchReject(id)
    \/ \E id \in 1..MaxSubmits, ok \in BOOLEAN : Documents_FetchResolve(id, ok)
    \/ \E id \in 1..MaxSubmits : Documents_JsonReject(id)
    \/ \E id \in 1..MaxSubmits, data \in Envelopes : Documents_JsonResolve(id, data)
    \/ \E key \in KeyNames : Index_Keyup(key)

Spec == Init /\ [][Next]_vars

(***************************************************************************)
(* renderResults of the results page as a function of its argument: any    *)
(* sequence of result objects, called repeatedly within one page (the      *)
(* window property it writes outlives a call).                             *)
(***************************************************************************)
RenderArgs == {Arr(s) : s \in SeqsUpTo(RenderItems, MaxResults)}

InitRender == InitPage("results")

Results_CallRenderResults(searchResults) ==
    /\ page = "results"
    /\ renderCalls < MaxCalls
    /\ Commit(Results_renderResults(World, searchResults), chains)
    /\ Step("render", renderCalls + 1, [NoData EXCEPT !.results = searchResults])
    /\ UNCHANGED <<page, query, algorithm, events, submitCalls, preventDefaults,
                   keys, shown>>

NextRender == \E searchResults \in RenderArgs : Results_CallRenderResults(searchResults)

SpecRender == InitRender /\ [][NextRender]_vars

(***************************************************************************)
(* What the step taken last added to the page.                             *)
(***************************************************************************)
LastAlerts == SubSeq(alerts, last.pre.nAlerts + 1, Len(alerts))
LastLogs == SubSeq(console, last.pre.nConsole + 1, Len(console))
LastRendered == renderReturns > last.pre.renderReturns
ErrorFree(data) == ~Truthy(data.error_message)
ExpectedItem(r) ==
    [tag |-> "li", class |-> "result", href |-> r.url, text |-> r.title,
     snippet |-> r.snippet]
Controller == page \in {"results", "documents"}

(***************************************************************************)
(* C1: on both controllers, once an HTTP-OK envelope with no error_message *)
(* and N >= 1 results has been processed, the results container holds      *)
(* exactly N list items, one per result in response order.                 *)
(***************************************************************************)
C1_RendersEveryResult ==
    (Controller /\ last.op = "data" /\ ErrorFree(last.data)
       /\ last.data.results.def /\ Len(last.data.results.val) >= 1)
    => /\ Len(container) = Len(last.data.results.val)
       /\ \A i \in 1..Len(container) : container[i].tag = "li"
       /\ page = "documents" =>
            \A i \in 1..Len(container) : container[i] = ExpectedItem(last.data.results.val[i])

\* the same statement for the documents page alone, where it holds
C1_DocumentsRendersEveryResult ==
    (page = "documents" /\ last.op = "data" /\ ErrorFree(last.data)
       /\ last.data.results.def /\ Len(last.data.results.val) >= 1)
    => /\ Len(container) = Len(last.data.results.val)
       /\ \A i \in 1..Len(container) : container[i] = ExpectedItem(last.data.results.val[i])

(***************************************************************************)
(* C2: on both controllers, a parsed body with a non-empty error_message   *)
(* yields exactly one 'Error from server' alert with that message, no call *)
(* of renderResults and no rendered item, also when it carries results.    *)
(***************************************************************************)
C2_ErrorEnvelopeAlertsOnly ==
    (Controller /\ last.op = "data" /\ Truthy(last.data.error_message))
    => /\ LastAlerts = <<"Error from server: " \o last.data.error_message.val>>
       /\ renderCalls = last.pre.renderCalls
       /\ container = last.pre.container

C2_Witness ==
    /\ page = "documents"
    /\ last.op = "data"
    /\ Truthy(last.data.error_message)
    /\ last.data.results.def /\ Len(last.data.results.val) >= 1
    /\ container # <<>>
    /\ Len(alerts) = 1

C3_Reason ==
    IF last.op = "fetchReject" THEN FailedToFetch
    ELSE IF last.op = "responseNotOk" THEN NotOk
    ELSE BadJson

(***************************************************************************)
(* C3: on both controllers, a non-OK status, a rejected fetch or a failed  *)
(* body parse is logged to the console exactly once, shows no alert, never *)
(* invokes renderResults and lets no exception escape the promise chain.   *)
(***************************************************************************)
C3_TransportFailureLoggedOnce ==
    (Controller /\ last.op \in {"fetchReject", "responseNotOk", "jsonReject"})
    => /\ LastLogs = <<"Error fetching search results: " \o C3_Reason>>
       /\ LastAlerts = <<>>
       /\ renderCalls = last.pre.renderCalls
       /\ uncaught = 0

C3_Witness ==
    /\ page = "documents"
    /\ last.op = "responseNotOk"
    /\ console = <<"Error fetching search results: Error: Network response was not ok">>
    /\ container # <<>>

(***************************************************************************)
(* C4: for an HTTP-OK envelope with no error_message and an empty results  *)
(* array, the controller of either page shows the 'No results found for    *)
(* your query.' alert exactly once and the container holds no list item.   *)
(***************************************************************************)
C4_EmptyResultsAlert ==
    (Controller /\ last.op = "data" /\ ErrorFree(last.data)
       /\ last.data.results.def /\ Len(last.data.results.val) = 0)
    => /\ LastAlerts = <<"No results found for your query.">>
       /\ container = <<>>

C5_ErrorIndices ==
    {i \in 1..Len(last.data.results.val) : Truthy(last.data.results.val[i].error_message)}

C5_First == CHOOSE i \in C5_ErrorIndices : \A j \in C5_ErrorIndices : i <= j

(***************************************************************************)
(* C5: renderResults of the results page, called with a sequence whose     *)
(* first result carrying an error_message is at (0-based) index k, appends *)
(* exactly the k results before it and nothing from index k on, and shows  *)
(* exactly one 'Error retrieving search results' alert with that message   *)
(* (and not the 'no results' alert).                                       *)
(***************************************************************************)
C5_RenderStopsAtFirstError ==
    (last.op = "render" /\ C5_ErrorIndices # {})
    => /\ Len(container) = C5_First - 1
       /\ LastAlerts = <<"Error retrieving search results: "
                           \o last.data.results.val[C5_First].error_message.val>>

C5_Witness ==
    /\ last.op = "render"
    /\ renderCalls = 2
    /\ Len(last.data.results.val) = 2
    /\ C5_ErrorIndices = {2}
    /\ Len(container) = 1
    /\ alerts = <<"Error retrieving search results: e1",
                  "Error retrieving search results: e2">>

C6_Enters == Cardinality({i \in 1..Len(keys) : keys[i] = "Enter"})

(***************************************************************************)
(* C6: on the index page a keyup with key 'Enter' calls the form's         *)
(* submit() exactly once and preventDefault on the event, a keyup with any *)
(* other key calls submit() zero times; over any sequence of key events    *)
(* the number of submit() calls equals the number of Enter keyups.         *)
(***************************************************************************)
C6_SubmitOncePerEnter ==
    page = "index"
    => /\ submitCalls = C6_Enters
       /\ preventDefaults = C6_Enters
       /\ last.op = "keyup" =>
            LET n == IF keys[Len(keys)] = "Enter" THEN 1 ELSE 0
            IN  /\ submitCalls = last.pre.submitCalls + n
                /\ preventDefaults = last.pre.preventDefaults + n

C6_Witness ==
    /\ page = "index"
    /\ keys = <<"Enter", "a", "Enter">>
    /\ submitCalls = 2

(***************************************************************************)
(* C7: the results page issues one POST per page load and the documents    *)
(* page one POST per submit event, with body {query, algorithm} equal to   *)
(* the field values at the moment the event fires; no response, whatever   *)
(* its outcome, issues a further request, so the number of requests always *)
(* equals the number of triggering events.                                 *)
(***************************************************************************)
C7_OneRequestPerEvent ==
    Controller
    => /\ sent = events
       /\ Len(chains) = events
       /\ last.op \in {"load", "submit"} =>
            /\ sent = last.pre.sent + 1
            /\ chains[Len(chains)] =
                 [stage |-> "pending",
                  request |->
                    [url |-> IF page = "results" THEN "/results" ELSE "/documents",
                     method |-> "POST",
                     contentType |-> "application/json",
                     body |-> "{\"query\":\"" \o last.pre.query \o "\",\"algorithm\":\""
                                \o last.pre.algorithm \o "\"}"]]
       /\ last.op \notin {"load", "submit"} => sent = last.pre.sent

C7_Witness ==
    /\ page = "documents"
    /\ last.op = "submit"
    /\ sent = 2
    /\ chains[1].stage = "pending"
    /\ chains[2].stage = "pending"
    /\ chains[1].request.body = "{\"query\":\"cat\",\"algorithm\":\"bm25\"}"
    /\ chains[2].request.body = "{\"query\":\"dog\",\"algorithm\":\"tfidf\"}"

C8_Outcomes ==
    (IF LastAlerts # <<>> THEN {"alert"} ELSE {})
      \cup (IF LastRendered THEN {"rendered"} ELSE {})
      \cup (IF LastLogs # <<>> THEN {"logged"} ELSE {})

(***************************************************************************)
(* C8: for every HTTP-OK envelope shape (error_message and results both    *)
(* present, only one of them, neither) each controller ends the processing *)
(* of the response in exactly one of: an alert shown, results rendered, an *)
(* error logged to the console; and never in an uncaught exception.        *)
(***************************************************************************)
C8_ExactlyOneOutcome ==
    (Controller /\ last.op = "data")
    => /\ Cardinality(C8_Outcomes) = 1
       /\ uncaught = 0

C8_Witness ==
    /\ page = "documents"
    /\ last.op = "data"
    /\ ~last.data.error_message.def
    /\ ~last.data.results.def
    /\ C8_Outcomes = {"logged"}
    /\ last.pre.container # <<>>

(***************************************************************************)
(* C9: on the documents page responses of concurrent submissions are       *)
(* processed independently, in arrival order; whenever no request is       *)
(* outstanding the container holds exactly the items of the HTTP-OK,       *)
(* error-free response processed last, which may belong to an earlier      *)
(* submission than the most recent one.                                    *)
(***************************************************************************)
C9_LastProcessedWins ==
    (page = "documents" /\ Outstanding = {})
    => container = [i \in 1..Len(shown.data.results.val) |->
                       ExpectedItem(shown.data.results.val[i])]

C9_Witness ==
    /\ page = "documents"
    /\ Outstanding = {}
    /\ Len(chains) = 2
    /\ last.op = "data"
    /\ last.id = 1
    /\ shown.id = 1
    /\ container # <<>>
    /\ last.pre.container # <<>>
    /\ last.pre.container # container

(***************************************************************************)
(* C10: on the documents page a response handled as an error (an envelope  *)
(* with error_message, a non-OK status, a rejected fetch) leaves the       *)
(* results container exactly as it was, so earlier items stay on screen;   *)
(* the container is only ever modified inside renderResults.               *)
(***************************************************************************)
C10_ErrorsLeaveContainer ==
    page = "documents"
    => /\ (\/ last.op \in {"fetchReject", "responseNotOk"}
           \/ last.op = "data" /\ Truthy(last.data.error_message))
          => container = last.pre.container
       /\ container # last.pre.container => renderCalls > last.pre.renderCalls

C10_Witness ==
    /\ page = "documents"
    /\ last.op = "data"
    /\ Truthy(last.data.error_message)
    /\ Len(container) = 2
    /\ Len(chains) = 2

====
